---- MODULE Spec2Model ----
(***************************************************************************)
(* Model of the two batch video pipelines of static/videos:                *)
(*   clip_video.py       find_and_crop_videos / crop_video_top_half        *)
(*   transform_video.py  find_and_process_videos / re_encode_video         *)
(* Paths and file names are character sequences, as in the Python code;    *)
(* a file system is a function from paths to contents.                     *)
(***************************************************************************)
EXTENDS Integers, Sequences, FiniteSets, TLC

VARIABLES
    pipeline,   \* "crop" (clip_video.py) or "transform" (transform_video.py)
    overwrite,  \* the --overwrite flag
    keyword,    \* the --exclude / --keyword argument
    tempDir,    \* tempfile.gettempdir()
    rootIsDir,  \* os.path.isdir(root_dir)
    fs,         \* the file system: path -> content
    pc,         \* position of the run
    batch,      \* video_paths_to_process
    idx,        \* index in batch of the job being processed
    outcome,    \* per job of this run, how it ended (the console report)
    run,        \* number of the current run of the script
    fsStart,    \* the file system as the current run's scan saw it
    prev        \* the last completed run: its batch and its files at the
                \* end; <<>> before any run completed

vars == <<pipeline, overwrite, keyword, tempDir, rootIsDir, fs, pc, batch,
          idx, outcome, run, fsStart, prev>>

-----------------------------------------------------------------------------
(* Bounds of the model *)

MaxFiles == 2

MaxRuns == 2

-----------------------------------------------------------------------------
(* Strings: sequences of one-character strings *)

\* The alphabet of the model is ASCII and Latin-1 (code points below U+0100).
\* On it str.lower() works character by character and keeps the length: it
\* changes A-Z and the letters U+00C0-U+00DE (but not the sign U+00D7).
UpperChars == <<"A","B","C","D","E","F","G","H","I","J","K","L","M",
                "N","O","P","Q","R","S","T","U","V","W","X","Y","Z",
                "À","Á","Â","Ã","Ä","Å","Æ","Ç","È","É","Ê","Ë","Ì",
                "Í","Î","Ï","Ð","Ñ","Ò","Ó","Ô","Õ","Ö","Ø","Ù","Ú",
                "Û","Ü","Ý","Þ">>

LowerChars == <<"a","b","c","d","e","f","g","h","i","j","k","l","m",
                "n","o","p","q","r","s","t","u","v","w","x","y","z",
                "à","á","â","ã","ä","å","æ","ç","è","é","ê","ë","ì",
                "í","î","ï","ð","ñ","ò","ó","ô","õ","ö","ø","ù","ú",
                "û","ü","ý","þ">>

\* str.lower() of one character of that alphabet
LowerChar(c) ==
    IF c \in {UpperChars[i] : i \in 1..Len(UpperChars)}
    THEN LowerChars[CHOOSE i \in 1..Len(UpperChars) : UpperChars[i] = c]
    ELSE c

\* str.lower()
Lower(s) == [i \in 1..Len(s) |-> LowerChar(s[i])]

\* s.endswith(suf)
EndsWith(s, suf) ==
    /\ Len(suf) <= Len(s)
    /\ SubSeq(s, Len(s) - Len(suf) + 1, Len(s)) = suf

\* sub in s
Contains(s, sub) ==
    \E i \in 0..(Len(s) - Len(sub)) : SubSeq(s, i + 1, i + Len(sub)) = sub

\* s.rfind(c): the last position of character c in s, 0 when there is none
RFind(s, c) ==
    IF \E i \in 1..Len(s) : s[i] = c
    THEN CHOOSE i \in 1..Len(s) : s[i] = c /\ \A j \in (i+1)..Len(s) : s[j] # c
    ELSE 0

Sep == "/"

ExtSep == "."

\* os.path.basename(p)
Basename(p) == SubSeq(p, RFind(p, Sep) + 1, Len(p))

\* os.path.join(d, name): an absolute name replaces d; a separator is put
\* between the two unless d is empty or already ends in one
Join(d, name) ==
    IF name # <<>> /\ name[1] = Sep THEN name
    ELSE IF d = <<>> \/ d[Len(d)] = Sep THEN d \o name
    ELSE d \o <<Sep>> \o name

\* os.path.splitext(p): the extension starts at the last dot of the last
\* component, unless that component has only dots before it
SplitExt(p) ==
    LET sepIndex == RFind(p, Sep)
        dotIndex == RFind(p, ExtSep)
    IN  IF /\ dotIndex > sepIndex
           /\ \E k \in (sepIndex + 1)..(dotIndex - 1) : p[k] # ExtSep
        THEN <<SubSeq(p, 1, dotIndex - 1), SubSeq(p, dotIndex, Len(p))>>
        ELSE <<p, <<>> >>

-----------------------------------------------------------------------------
(* Literals of the two scripts *)

DotMp4 == <<".", "m", "p", "4">>

CroppedTag == <<"_", "c", "r", "o", "p", "p", "e", "d">>

NewTag == <<"_", "n", "e", "w">>

TempCropPrefix == <<"t", "e", "m", "p", "_", "c", "r", "o", "p", "_">>

TempPrefix == <<"t", "e", "m", "p", "_">>

-----------------------------------------------------------------------------
(* File selection: the filter in the os.walk loops *)

\* line 96 dropped: outputs of an earlier run are not skipped
CropSelects_NoSelfExclusion(filename, kw, ow) ==
    /\ EndsWith(Lower(filename), DotMp4)
    /\ ~Contains(Lower(filename), Lower(kw))

\* line 90 dropped: outputs of an earlier run are not skipped
TransformSelects_NoSelfExclusion(filename, kw, ow) ==
    /\ EndsWith(Lower(filename), DotMp4)
    /\ Contains(Lower(filename), Lower(kw))

\* clip_video.py: an mp4 WITHOUT the keyword; in copy mode, not '_cropped.mp4'
CropSelects(filename, kw, ow) ==
    /\ EndsWith(Lower(filename), DotMp4)
    /\ ~Contains(Lower(filename), Lower(kw))
    /\ ~(~ow /\ EndsWith(Lower(filename), CroppedTag \o DotMp4))

\* transform_video.py: an mp4 WITH the keyword; in copy mode, not '_new.mp4'
TransformSelects(filename, kw, ow) ==
    /\ EndsWith(Lower(filename), DotMp4)
    /\ Contains(Lower(filename), Lower(kw))
    /\ ~(~ow /\ EndsWith(Lower(filename), NewTag \o DotMp4))

Selects(pl, filename, kw, ow) ==
    IF pl = "crop" THEN CropSelects(filename, kw, ow)
                   ELSE TransformSelects(filename, kw, ow)

-----------------------------------------------------------------------------
(* Output placement: temp_output_path and output_path_final of a job *)

\* crop_video_top_half, lines 17-26
CropPaths(input_path, ow, tmp) ==
    IF ow
    THEN [temp  |-> Join(tmp, TempCropPrefix \o Basename(input_path)),
          final |-> input_path]
    ELSE LET se == SplitExt(input_path)
             out == se[1] \o CroppedTag \o se[2]
         IN  [temp |-> out, final |-> out]

\* re_encode_video, lines 18-27
ReEncodePaths(input_path, ow, tmp) ==
    IF ow
    THEN [temp  |-> Join(tmp, TempPrefix \o Basename(input_path)),
          final |-> input_path]
    ELSE LET se == SplitExt(input_path)
             out == se[1] \o NewTag \o se[2]
         IN  [temp |-> out, final |-> out]

JobPaths(pl, input_path, ow, tmp) ==
    IF pl = "crop" THEN CropPaths(input_path, ow, tmp)
                   ELSE ReEncodePaths(input_path, ow, tmp)

-----------------------------------------------------------------------------
(* The file system and the external tool *)

\* content of a file never touched by the tool
Orig(p) == [src |-> p, gen |-> 0, partial |-> FALSE]

\* what ffmpeg writes for an input of content c when it exits 0
Transcode(c) == [c EXCEPT !.gen = @ + 1]

\* what ffmpeg may leave behind when it exits non-zero
PartialOf(c) == [c EXCEPT !.gen = @ + 1, !.partial = TRUE]

FsPut(f, p, c) == [q \in (DOMAIN f) \cup {p} |-> IF q = p THEN c ELSE f[q]]

FsDel(f, p) == [q \in (DOMAIN f) \ {p} |-> f[q]]

\* shutil.move(src, dst) that succeeds
FsMove(f, src, dst) == FsDel(FsPut(f, dst, f[src]), src)

-----------------------------------------------------------------------------
(* Directories and the files the model draws its trees from *)

Root == <<"r">>

\* a sub-directory of the root whose own name holds the default keyword
Sub == Join(Root, <<"m", "o", "t", "i", "o", "n">>)

\* a scratch directory outside the scanned tree
Scratch == <<"t">>

\* a sub-directory of that one, with no file of its own beside it
Deep == Join(Sub, <<"d">>)

\* another sub-directory of the root
Other == Join(Root, <<"x">>)

KwMotion == <<"m", "o", "t", "i", "o", "n">>

KwA == <<"A">>

Keywords == {KwMotion, KwA}

\* tempfile.gettempdir() is TMPDIR, a system directory or the working
\* directory: outside the scanned tree, or a directory of it
TempDirs == {Scratch, Root}

N_a == <<"a">> \o DotMp4

N_A == <<"A", ".", "M", "P", "4">>

N_a_motion == <<"a", "_">> \o KwMotion \o DotMp4

N_dot == DotMp4

N_a_cropped == <<"a">> \o CroppedTag \o DotMp4

N_a_motion_new == <<"a", "_">> \o KwMotion \o NewTag \o DotMp4

N_b_txt == <<"b", ".", "t", "x", "t">>

RootNames == {N_a, N_A, N_a_motion, N_dot, N_a_cropped, N_a_motion_new,
              N_b_txt, TempCropPrefix \o N_a, TempPrefix \o N_a_motion}

SubNames == {N_a, N_a_motion}

DeepNames == {N_a_motion}

OtherNames == {N_a}

ScratchNames == {TempCropPrefix \o N_a, TempPrefix \o N_a_motion}

PathPool ==
    {Join(Root, n) : n \in RootNames}
        \cup {Join(Sub, n) : n \in SubNames}
        \cup {Join(Deep, n) : n \in DeepNames}
        \cup {Join(Other, n) : n \in OtherNames}
        \cup {Join(Scratch, n) : n \in ScratchNames}

\* the sets of at most MaxFiles paths of a pool
SetsOf(pool) ==
    UNION {{{f[i] : i \in 1..n} : f \in [1..n -> pool]} : n \in 0..MaxFiles}

FileSets == SetsOf(PathPool)

\* a wider choice of keywords and file names, for the scan alone
ScanKeywords ==
    {KwMotion, <<"M", "o", "T", "i", "o", "n">>, <<>>, <<"a", ".">>,
     <<"m", "o", "t", "i", "Ö", "n">>}

ScanRootNames ==
    {N_a, N_A, N_a_motion, N_dot, N_a_cropped, N_a_motion_new,
     <<"a", "_", "M", "O", "T", "I", "O", "N">> \o DotMp4,
     <<"a", "_", "m", "o", "t">> \o DotMp4,
     KwMotion,
     <<"a", "m", "p", "4">>,
     N_a \o <<".", "t", "x", "t">>,
     <<"a", "_", "C", "R", "O", "P", "P", "E", "D", ".", "M", "P", "4">>,
     CroppedTag \o DotMp4,
     <<"a">> \o CroppedTag \o <<"_", "b">> \o DotMp4,
     <<"a">> \o NewTag \o DotMp4,
     <<"a", "_">> \o KwMotion \o <<"_", "N", "e", "W", ".", "m", "p", "4">>,
     <<"a", "_">> \o KwMotion \o CroppedTag \o DotMp4,
     <<"a", "c", "r", "o", "p", "p", "e", "d">> \o DotMp4,
     <<"a", "_", "M", "O", "T", "I", "ö", "N">> \o DotMp4,
     <<"É", ".", "M", "P", "4">>}

ScanSubNames == {N_a, N_a_motion_new}

ScanPool ==
    {Join(Root, n) : n \in ScanRootNames}
        \cup {Join(Sub, n) : n \in ScanSubNames}
        \cup {Join(Deep, n) : n \in DeepNames}
        \cup {Join(Other, n) : n \in OtherNames}

-----------------------------------------------------------------------------
(* The scan: os.walk(root_dir) and the loop over its triples *)

\* a is the beginning of p
IsPrefix(a, p) == Len(a) <= Len(p) /\ SubSeq(p, 1, Len(a)) = a

\* what os.path.join puts in front of the name of an entry of directory d
DirPrefix(d) == Join(d, <<>>)

\* the path p lies in directory d or below it
Under(d, p) == IsPrefix(DirPrefix(d), p) /\ Len(p) > Len(DirPrefix(d))

\* the path p from directory d
Rest(d, p) == SubSeq(p, Len(DirPrefix(d)) + 1, Len(p))

\* s up to its first separator
FirstPart(s) ==
    SubSeq(s, 1, (CHOOSE i \in 1..Len(s) :
                     s[i] = Sep /\ \A j \in 1..(i - 1) : s[j] # Sep) - 1)

\* filenames of the triple os.walk yields for d, as joined paths
FilesIn(f, d) ==
    {p \in DOMAIN f : Under(d, p) /\ ~Contains(Rest(d, p), <<Sep>>)}

\* dirnames of the triple os.walk yields for d, as the dirpaths it goes on to
SubDirs(f, d) ==
    {Join(d, FirstPart(Rest(d, p))) :
        p \in {q \in DOMAIN f : Under(d, q) /\ Contains(Rest(d, q), <<Sep>>)}}

\* the files os.walk(root_dir) comes to, at any depth
InTree(p) == Under(Root, p)

Perms(S) ==
    {f \in [1..Cardinality(S) -> S] : \A i, j \in 1..Cardinality(S) :
                                          i # j => f[i] # f[j]}

\* the filter applied to the joined path instead of the file name
Picked_OnFullPath(f, d, pl, kw, ow) ==
    {p \in FilesIn(f, d) : Selects(pl, p, kw, ow)}

\* for filename in filenames: if <selected>: append(os.path.join(...)):
\* the paths one directory d contributes, as a set
Picked(f, d, pl, kw, ow) ==
    {p \in FilesIn(f, d) : Selects(pl, Rest(d, p), kw, ow)}

RECURSIVE Walk(_, _, _, _, _)
RECURSIVE WalkDirs(_, _, _, _, _)

\* os.walk from d, top-down: the files of d, in the order the directory
\* listing gives them, which is any order; then its sub-directories
Walk(f, d, pl, kw, ow) ==
    {a \o b : a \in Perms(Picked(f, d, pl, kw, ow)),
              b \in WalkDirs(f, SubDirs(f, d), pl, kw, ow)}

\* the sub-directories ds one after the other, each one whole before the
\* next, in the order the directory listing gives them
WalkDirs(f, ds, pl, kw, ow) ==
    IF ds = {} THEN {<<>>}
    ELSE UNION {{a \o b : a \in Walk(f, d, pl, kw, ow),
                          b \in WalkDirs(f, ds \ {d}, pl, kw, ow)} : d \in ds}

\* video_paths_to_process after the loop of lines 89-98
Collect(f, pl, kw, ow) == Walk(f, Root, pl, kw, ow)

-----------------------------------------------------------------------------
(* The run *)

Job == JobPaths(pipeline, batch[idx], overwrite, tempDir)

InitOn(kws, sets) ==
    /\ pipeline \in {"crop", "transform"}
    /\ overwrite \in BOOLEAN
    /\ keyword \in kws
    /\ tempDir \in TempDirs
    /\ overwrite \/ tempDir = Scratch   \* only overwrite mode asks for it
    /\ rootIsDir \in BOOLEAN
    /\ \E S \in sets :
          /\ rootIsDir \/ \A p \in S : ~InTree(p)
          /\ fs = [p \in S |-> Orig(p)]
    /\ pc = "start"
    /\ batch = <<>>
    /\ idx = 0
    /\ outcome = <<>>
    /\ run = 1
    /\ fsStart = fs
    /\ prev = <<>>

Init == InitOn(Keywords, FileSets)

inputs == <<pipeline, overwrite, keyword, tempDir, rootIsDir>>

\* lines 81-83: the root is not a directory
RootMissing ==
    /\ pc = "start"
    /\ ~rootIsDir
    /\ pc' = "noroot"
    /\ UNCHANGED <<inputs, fs, batch, idx, outcome, run, fsStart, prev>>

\* lines 89-104: the scan, complete before any job starts
Scan ==
    /\ pc = "start"
    /\ rootIsDir
    /\ batch' \in Collect(fs, pipeline, keyword, overwrite)
    /\ fsStart' = fs
    /\ outcome' = <<>>
    /\ IF batch' = <<>> THEN pc' = "nocand" /\ idx' = 0
                        ELSE pc' = "invoke" /\ idx' = 1
    /\ UNCHANGED <<inputs, fs, run, prev>>

\* after a job: the next iteration of the for loop, or 'Processing complete'
Advance(o, f) ==
    /\ outcome' = Append(outcome, o)
    /\ fs' = f
    /\ IF idx < Len(batch)
       THEN /\ idx' = idx + 1
            /\ pc' = "invoke"
            /\ prev' = prev
       ELSE /\ idx' = idx
            /\ pc' = "complete"
            /\ prev' = <<[batch |-> batch, fs |-> f]>>

\* the run ends inside a job: exit() or an exception nobody catches
Stop(where, o) ==
    /\ outcome' = Append(outcome, o)
    /\ pc' = where
    /\ UNCHANGED <<idx, prev>>

\* subprocess.run returns: ffmpeg exited 0, having written temp_output_path,
\* and what it printed decodes as text. It exits 0 only for an input that
\* exists and is not its own output.
ToolOk ==
    /\ pc = "invoke"
    /\ batch[idx] \in DOMAIN fs
    /\ Job.temp # batch[idx]
    /\ fs' = FsPut(fs, Job.temp, Transcode(fs[batch[idx]]))
    /\ pc' = "place"
    /\ UNCHANGED <<inputs, batch, idx, outcome, run, fsStart, prev>>

\* subprocess.run raises CalledProcessError: ffmpeg exited non-zero, having
\* written nothing or a partial output, and what it printed decodes as text
ToolNonZero ==
    /\ pc = "invoke"
    /\ \E wrote \in BOOLEAN :
          fs' = IF wrote /\ batch[idx] \in DOMAIN fs /\ Job.temp # batch[idx]
                THEN FsPut(fs, Job.temp, PartialOf(fs[batch[idx]]))
                ELSE fs
    /\ pc' = "cleanup"
    /\ UNCHANGED <<inputs, batch, idx, outcome, run, fsStart, prev>>

\* subprocess.run raises something neither handler catches, and the run ends
\* with a traceback: an OSError that is no FileNotFoundError when the binary
\* cannot be executed ("exec": nothing ran), or UnicodeDecodeError (text=True)
\* when ffmpeg has run to its end and what it printed does not decode,
\* after a zero exit ("decode_zero") or a non-zero one ("decode_nonzero")
ToolRaises ==
    /\ pc = "invoke"
    /\ \E how \in {"exec", "decode_zero", "decode_nonzero"}, wrote \in BOOLEAN :
          LET canWrite == batch[idx] \in DOMAIN fs /\ Job.temp # batch[idx]
          IN  /\ how = "exec" => ~wrote
              /\ how = "decode_zero" => wrote /\ canWrite
              /\ fs' = IF wrote /\ canWrite
                       THEN FsPut(fs, Job.temp,
                                  IF how = "decode_zero"
                                  THEN Transcode(fs[batch[idx]])
                                  ELSE PartialOf(fs[batch[idx]]))
                       ELSE fs
              /\ Stop("crashed", how)
    /\ UNCHANGED <<inputs, batch, run, fsStart>>

\* the missing binary handled like a failed job: report and go on
ToolNotFound_GoesOn ==
    /\ pc = "invoke"
    /\ Advance("notfound", fs)
    /\ UNCHANGED <<inputs, batch, run, fsStart>>

\* subprocess.run raises FileNotFoundError: no ffmpeg binary; lines 67-69
ToolNotFound ==
    /\ pc = "invoke"
    /\ Stop("exited", "notfound")
    /\ UNCHANGED <<inputs, fs, batch, run, fsStart>>

\* what a shutil.move(src, dst) that raises OSError may leave: nothing
\* changed (the rename was refused); or, when it has to copy (src and dst on
\* two file systems), dst holding the beginning of src (the copy broke off)
\* or all of it (the copy was made, the removal of src refused). src stays.
FsMoveFailed(f, src, dst) ==
    {f,
     FsPut(f, dst, [f[src] EXCEPT !.partial = TRUE]),
     FsPut(f, dst, f[src])}

\* lines 52-57: after a zero exit. shutil.move may raise: FileNotFoundError
\* (no file at temp_output_path) is caught by the handler of lines 67-69,
\* any other OSError (a source that cannot be replaced) by nobody.
Place ==
    /\ pc = "place"
    /\ \E mv \in {"ok", "oserror"} :
          IF ~overwrite
          THEN Advance("ok", fs)
          ELSE IF Job.temp \notin DOMAIN fs
          THEN Stop("exited", "move_notfound") /\ fs' = fs
          ELSE IF mv = "oserror"
          THEN /\ Stop("crashed", "move_oserror")
               /\ fs' \in FsMoveFailed(fs, Job.temp, Job.final)
          ELSE Advance("ok", FsMove(fs, Job.temp, Job.final))
    /\ UNCHANGED <<inputs, batch, run, fsStart>>

\* lines 59-66: after a non-zero exit. os.remove may raise (an entry that
\* cannot be deleted), inside the handler, where nobody catches it.
Cleanup ==
    /\ pc = "cleanup"
    /\ \E rm \in {"ok", "oserror"} :
          IF overwrite /\ Job.temp \in DOMAIN fs
          THEN IF rm = "oserror"
               THEN Stop("crashed", "remove_oserror") /\ fs' = fs
               ELSE Advance("nonzero", FsDel(fs, Job.temp))
          ELSE Advance("nonzero", fs)
    /\ UNCHANGED <<inputs, batch, run, fsStart>>

\* the script is started again on the tree a completed run left
Rerun ==
    /\ pc = "complete"
    /\ run < MaxRuns
    /\ run' = run + 1
    /\ pc' = "start"
    /\ batch' = <<>>
    /\ idx' = 0
    /\ outcome' = <<>>
    /\ UNCHANGED <<inputs, fs, fsStart, prev>>

Next ==
    \/ RootMissing
    \/ Scan
    \/ ToolOk
    \/ ToolNonZero
    \/ ToolRaises
    \/ ToolNotFound
    \/ Place
    \/ Cleanup
    \/ Rerun

Spec == Init /\ [][Next]_vars

\* copy mode (no --overwrite)
InitCopy == Init /\ ~overwrite

\* one run of the script, in either mode
NextOnce ==
    \/ RootMissing
    \/ Scan
    \/ ToolOk
    \/ ToolNonZero
    \/ ToolRaises
    \/ ToolNotFound
    \/ Place
    \/ Cleanup

SpecOnce == Init /\ [][NextOnce]_vars

\* the scan alone, on the wider choice of keywords and names
ScanSets == SetsOf(ScanPool)

InitScan == InitOn(ScanKeywords, ScanSets)

NextScan ==
    \/ RootMissing
    \/ Scan

SpecScan == InitScan /\ [][NextScan]_vars

\* a re-run of copy mode on an otherwise unchanged tree, every job
\* succeeding: subprocess.run returns each time
NextRepeat ==
    \/ RootMissing
    \/ Scan
    \/ ToolOk
    \/ Place
    \/ Rerun

SpecRepeat == InitCopy /\ [][NextRepeat]_vars

-----------------------------------------------------------------------------
(* Vocabulary of the properties *)

\* the run has collected its batch
Scanned == pc \in {"invoke", "place", "cleanup", "complete", "exited", "crashed"}

\* the run is over
Ended == pc \in {"complete", "exited", "crashed"}

BatchSet == {batch[i] : i \in 1..Len(batch)}

TempOf(j) == JobPaths(pipeline, batch[j], overwrite, tempDir).temp

FinalOf(j) == JobPaths(pipeline, batch[j], overwrite, tempDir).final

TreeFiles(f) == {p \in DOMAIN f : InTree(p)}

\* the suffix tag of the pipeline's copy-mode outputs
OwnTag == IF pipeline = "crop" THEN CroppedTag ELSE NewTag

\* s ends, whatever the case of its letters, in t
EndsWithCI(s, t) ==
    /\ Len(t) <= Len(s)
    /\ \A i \in 1..Len(t) :
          LowerChar(s[Len(s) - Len(t) + i]) = LowerChar(t[i])

\* s holds, whatever the case of its letters, t
ContainsCI(s, t) ==
    \E k \in 0..(Len(s) - Len(t)) :
        \A i \in 1..Len(t) : LowerChar(s[k + i]) = LowerChar(t[i])

\* the file name of a path: what follows its last separator
NameOf(p) ==
    LET k == CHOOSE k \in 0..Len(p) :
                 /\ k = 0 \/ p[k] = Sep
                 /\ \A j \in (k + 1)..Len(p) : p[j] # Sep
    IN  [i \in 1..(Len(p) - k) |-> p[k + i]]

-----------------------------------------------------------------------------
\* C1: the batch the scan collects is exactly the set of the tree's files
\* whose file name ends, case-insensitively, in '.mp4' and holds the keyword,
\* case-insensitively, iff the pipeline is the including one (transform),
\* minus, in copy mode only, those whose name ends in the pipeline's own
\* '_cropped.mp4' / '_new.mp4'; and each such file is in the batch once.
C1_ScanSelectsExactly ==
    pc \in {"invoke", "nocand"} =>
        /\ BatchSet =
              {p \in TreeFiles(fsStart) :
                  /\ EndsWithCI(NameOf(p), DotMp4)
                  /\ ContainsCI(NameOf(p), keyword) <=> (pipeline = "transform")
                  /\ overwrite \/ ~EndsWithCI(NameOf(p), OwnTag \o DotMp4)}
        /\ \A i, j \in 1..Len(batch) : i # j => batch[i] # batch[j]

\* C1's case: a copy-mode scan that takes a file of the directory named after
\* the keyword, and leaves an mp4 out
C1_Witness ==
    /\ pc = "invoke"
    /\ ~overwrite
    /\ pipeline = "crop"
    /\ keyword = KwMotion
    /\ Join(Sub, N_a) \in BatchSet
    /\ Join(Root, N_a_cropped) \in DOMAIN fs

\* C2: a copy-mode run repeated on the tree the run before it left, every
\* transcode succeeding, selects the same sources as that run, writes only
\* paths that run wrote (the files and their contents stay as that run left
\* them), and no output is ever made from an output: no written file is
\* named '*_cropped_cropped.mp4' / '*_new_new.mp4'.
C2_RerunAddsNothing ==
    /\ (run >= 2 /\ pc \in {"nocand", "invoke", "place"}) =>
           BatchSet = {prev[1].batch[i] : i \in 1..Len(prev[1].batch)}
    /\ (run >= 2 /\ pc # "start") => fs = fsStart
    /\ \A p \in DOMAIN fs :
           /\ fs[p].gen <= 1
           /\ fs[p].gen = 1 =>
                 ~EndsWithCI(NameOf(p), OwnTag \o OwnTag \o DotMp4)

\* C2's case: the second run of two sources has completed
C2_Witness ==
    /\ run = 2
    /\ pc = "complete"
    /\ Len(batch) = 2
    /\ \A j \in 1..2 : FinalOf(j) \in DOMAIN fs /\ fs[FinalOf(j)].gen = 1

\* C4: when the ffmpeg binary is not found at a job the run ends there: the
\* step changes no file, the job is the last one invoked, nothing happens
\* after it, and 'Processing complete' is not reached.
C4_MissingToolAborts ==
    /\ [](\A i \in 1..Len(outcome) :
            outcome[i] = "notfound" =>
                i = Len(outcome) /\ i = idx /\ pc = "exited")
    /\ [][/\ (pc = "invoke" /\ outcome' = Append(outcome, "notfound")) =>
                 (fs' = fs /\ pc' = "exited")
          /\ pc = "exited" => UNCHANGED vars]_vars

\* C4's case: the binary is missing at the first of two jobs
C4_Witness ==
    /\ pc = "exited"
    /\ overwrite
    /\ Len(batch) = 2
    /\ outcome = <<"notfound">>

\* C7: in copy mode no job's destination is the source of a job of the same
\* batch, and every selected file keeps the content it had at the scan,
\* whether its job and the others succeed or fail.
C7_CopyLeavesSources ==
    (~overwrite /\ Scanned) =>
        /\ \A i, j \in 1..Len(batch) :
              FinalOf(i) # batch[j] /\ TempOf(i) # batch[j]
        /\ \A j \in 1..Len(batch) :
              batch[j] \in DOMAIN fs /\ fs[batch[j]] = fsStart[batch[j]]

\* C7's case: a copy-mode run of two jobs, one failed leaving a partial
\* output and one succeeded
C7_Witness ==
    /\ ~overwrite
    /\ pc = "complete"
    /\ outcome = <<"nonzero", "ok">>
    /\ FinalOf(1) \in DOMAIN fs /\ fs[FinalOf(1)].partial
    /\ FinalOf(2) \in DOMAIN fs /\ fs[FinalOf(2)].gen = 1

\* C3: once a job exited non-zero and no binary went missing, the run goes
\* through every job of the batch.
C3_FailureIsolation ==
    (/\ Ended
     /\ \E j \in 1..Len(outcome) :
           outcome[j] \in {"nonzero", "remove_oserror", "decode_nonzero"}
     /\ \A j \in 1..Len(outcome) : outcome[j] # "notfound")
        => idx = Len(batch) /\ Len(outcome) = Len(batch)

\* C5: in overwrite mode a source holds its original content until its own
\* job has succeeded, and the transcoded output of its own content after.
C5_ReplacedOnlyAfterSuccess ==
    (overwrite /\ Scanned) =>
        \A j \in 1..Len(batch) :
            /\ batch[j] \in DOMAIN fs
            /\ fs[batch[j]] =
                  IF j <= Len(outcome) /\ outcome[j] = "ok"
                  THEN Transcode(fsStart[batch[j]])
                  ELSE fsStart[batch[j]]

\* C6: in overwrite mode, when a job has finished by success or by a
\* non-zero exit its temporary file is gone, and after a complete batch no
\* temporary file of the run is left and the tree holds the files it held.
C6_NoTempLeft ==
    overwrite =>
        /\ (pc \in {"invoke", "complete"} /\ Len(outcome) >= 1) =>
               TempOf(Len(outcome)) \notin DOMAIN fs
        /\ pc = "complete" =>
               /\ \A j \in 1..Len(batch) : TempOf(j) \notin DOMAIN fs
               /\ TreeFiles(fs) = TreeFiles(fsStart)

\* C8: a run ends inside a job only because the ffmpeg binary is missing.
C8_OnlyMissingToolEndsRun ==
    pc \in {"exited", "crashed"} => outcome[Len(outcome)] = "notfound"

\* C9: in overwrite mode two jobs of a batch never have the same temporary
\* path, and no job's temporary path is a file that was there before.
C9_TempUnique ==
    (overwrite /\ Scanned) =>
        /\ \A i, j \in 1..Len(batch) : i # j => TempOf(i) # TempOf(j)
        /\ \A j \in 1..Len(batch) : TempOf(j) \notin DOMAIN fsStart

\* C10: the batch is what the scan collected from the tree as it was then,
\* without repetition, jobs are taken one by one in its order, and unless the
\* binary went missing a run that is over has handed every path to the tool.
C10_Sequential ==
    Scanned =>
        /\ batch \in Collect(fsStart, pipeline, keyword, overwrite)
        /\ \A i, j \in 1..Len(batch) : i # j => batch[i] # batch[j]
        /\ Len(outcome) \in {idx - 1, idx}
        /\ (Ended /\ \A j \in 1..Len(outcome) : outcome[j] # "notfound") =>
               Len(outcome) = Len(batch)

====
